---- MODULE Spec2Model ----
(***************************************************************************)
(* Model of the asynchronous download-task tracking of app.py: the shared  *)
(* TASKS dictionary, the POST /download handler (download_route) with its  *)
(* closures progress_hook and worker, the GET /task/<tid> handler          *)
(* (task_status), and the temporary cookie files on disk.                  *)
(*                                                                         *)
(* Python values are represented as follows.  A str is a sequence of       *)
(* one-character strings; None is the one-element tuple <<"None">>, which  *)
(* is no str because "None" is not a single character.  A dict is a        *)
(* function whose DOMAIN is its set of keys, so an absent key and a key    *)
(* holding None are different.  The extraction library (yt_dlp) is the     *)
(* environment: it calls progress_hook with any event any number of times  *)
(* and then returns a file name or raises.  The code never reads the       *)
(* timestamps it stores: created is kept, read from a logical clock that   *)
(* counts the records created so far, and the ts of a message is left out. *)
(***************************************************************************)
EXTENDS Integers, Sequences, FiniteSets, TLC

VARIABLES
    TASKS,   \* the module-level dict TASKS: task_id -> task record (a dict)
    files,   \* names of the temporary cookie files that exist on disk
    req,     \* per request r: the frame of one download_route call
    wk,      \* per request r: the thread running the closure worker()
    poll,    \* the response sent by the latest step, if it was a task_status call
    TASK_LOCK, \* the module-level threading.Lock: its holder, or Unlocked
    call     \* the frame of a call that is checked on its own (see the
             \* specifications after Spec); NoCall in Spec

vars == <<TASKS, files, req, wk, poll, TASK_LOCK, call>>

\* ------------------------------------------------------------- bounds
MaxBytes == 1      \* byte counts carried by progress events: 0..MaxBytes

\* The POST /download requests the server receives; they run concurrently.
Reqs == {"r1", "r2"}

\* Values str(uuid.uuid4()) can take, in the order in which they are handed
\* out; one more than there are requests, so that some identifier is never
\* a key of TASKS.
Uuids == {<<"uuid", i>> : i \in 1..(Cardinality(Reqs) + 1)}

\* Names tempfile.NamedTemporaryFile(suffix=".txt") can pick: one for each
\* download request and one for an info request.
TmpNames == {<<"tmp", i, ".txt">> : i \in 1..(Cardinality(Reqs) + 1)}

\* ------------------------------------------------------------- Python values
None == <<"None">>

\* bool(v) of a str-or-None value
Truthy(v) == v # None /\ v # <<>>

\* The url form fields a request can carry: absent, empty, present.
Urls == {None, <<>>, <<"u">>}

\* str(e) of the exceptions the library or the worker can raise; an
\* exception constructed without arguments has the empty message.
ErrTexts == {<<>>, <<"4", "0", "3">>}

\* Values ydl.prepare_filename(info) can return.
Paths == {<<>>, <<"/">>, <<"d", "/", "a">>}

\* f"{pct}%"
FmtPct(pct) == ToString(pct) \o "%"

\* dict.update: keys of upd are added or overwritten, the others kept
DictUpdate(d, upd) ==
    [k \in DOMAIN d \cup DOMAIN upd |-> IF k \in DOMAIN upd THEN upd[k] ELSE d[k]]

\* None held by a numeric field of a progress event.  The library reports
\* byte counts, which are never negative, so -1 is free to stand for it.
NoneNum == -1

\* dict.get(k) for a total of a progress event: an absent key gives None, as
\* does a key holding None; None is falsy like 0, and the code only ever tests
\* the result for truth
GetNum(d, k) == IF k \in DOMAIN d /\ d[k] # NoneNum THEN d[k] ELSE 0

\* ------------------------------------------------------------- pure helpers
\* pathlib.Path(p).name for a POSIX path: trailing slashes are dropped and
\* the name is what follows the last remaining slash ("" for the root)
RECURSIVE StripSlashes(_)
StripSlashes(p) ==
    IF p = <<>> THEN p
    ELSE IF p[Len(p)] = "/" THEN StripSlashes(SubSeq(p, 1, Len(p) - 1))
    ELSE p

RECURSIVE LastSegment(_)
LastSegment(p) ==
    IF p = <<>> THEN <<>>
    ELSE IF p[Len(p)] = "/" THEN <<>>
    ELSE Append(LastSegment(SubSeq(p, 1, Len(p) - 1)), p[Len(p)])

\* Mutant of PathName: the path is kept whole (no .name).
PathName_FullPath(p) == p

PathName(p) == LastSegment(StripSlashes(p))

\* The events yt_dlp can pass to a progress hook.
Bytes == 0..MaxBytes
Events ==
       {[status |-> "downloading", downloaded_bytes |-> b, total_bytes |-> t] :
            b \in Bytes, t \in Bytes}
  \cup {[status |-> "downloading", downloaded_bytes |-> b, total_bytes_estimate |-> t] :
            b \in Bytes, t \in Bytes \ {0}}
  \cup {[status |-> "downloading", downloaded_bytes |-> b] : b \in Bytes}
  \cup {[status |-> "downloading"], [status |-> "finished"], [status |-> "error"]}

\* Mutant of progress_hook: a "downloading" event also sets the status back
\* to running.
progress_hook_ResetsStatus(t, d) ==
    IF d.status = "downloading" THEN
        [t EXCEPT !.progress = "0%", !.status = "running"]
    ELSE IF d.status = "finished" THEN
        [t EXCEPT !.progress = "100%", !.status = "processing"]
    ELSE t

\* Mutant of HookRun: the percentage is rounded to the nearest integer
\* instead of truncated.
HookRun_Rounds(t, d) ==
    IF d.status = "downloading" THEN
        LET tb    == GetNum(d, "total_bytes")
            total == IF tb # 0 THEN tb ELSE GetNum(d, "total_bytes_estimate")
            done  == IF "downloaded_bytes" \in DOMAIN d THEN d.downloaded_bytes ELSE 0
        IN  IF total # 0 /\ done = NoneNum
            THEN [task |-> t, exc |-> "TypeError"]
            ELSE [task |-> [t EXCEPT !.progress =
                               FmtPct(IF total # 0
                                      THEN (2 * done * 100 + total) \div (2 * total)
                                      ELSE 0)],
                  exc |-> "none"]
    ELSE IF d.status = "finished" THEN
        [task |-> [t EXCEPT !.progress = "100%", !.status = "processing"], exc |-> "none"]
    ELSE [task |-> t, exc |-> "none"]

\* Lines 279-286, the try block of progress_hook(d) run on the record t: the
\* record it leaves and the exception it ends with, if any.  None * 100 raises
\* TypeError before anything is written.
HookRun(t, d) ==
    IF d.status = "downloading" THEN
        LET tb    == GetNum(d, "total_bytes")
            total == IF tb # 0 THEN tb ELSE GetNum(d, "total_bytes_estimate")
            done  == IF "downloaded_bytes" \in DOMAIN d THEN d.downloaded_bytes ELSE 0
        IN  IF total # 0 /\ done = NoneNum
            THEN [task |-> t, exc |-> "TypeError"]
            ELSE [task |-> [t EXCEPT !.progress =
                               FmtPct(IF total # 0 THEN (done * 100) \div total ELSE 0)],
                  exc |-> "none"]
    ELSE IF d.status = "finished" THEN
        [task |-> [t EXCEPT !.progress = "100%", !.status = "processing"], exc |-> "none"]
    ELSE [task |-> t, exc |-> "none"]

\* Line 287: `except Exception` catches every exception the try block can end
\* with.
HookCatches(exc) == exc \in {"TypeError", "KeyError", "ZeroDivisionError"}

\* The exception progress_hook(d) lets out to its caller ("none": it returns).
HookEscapes(t, d) ==
    IF HookCatches(HookRun(t, d).exc) THEN "none" ELSE HookRun(t, d).exc

\* The task record after progress_hook(d) ran on the record t.
progress_hook(t, d) == HookRun(t, d).task

\* What ydl_extract_info(url, opts, download=True) can return.
Results ==
       {[ok |-> TRUE, filename |-> p] : p \in Paths}
  \cup {[ok |-> FALSE, error |-> e] : e \in ErrTexts}

\* Mutant of add_task_message: the truth test is made on the list of messages
\* instead of the record, so nothing is appended to an empty list.
add_task_message_TestsList(T, task_id, text) ==
    IF task_id \notin DOMAIN T \/ T[task_id].messages = <<>> THEN T
    ELSE [T EXCEPT ![task_id].messages = Append(@, [text |-> text])]

\* Mutant of add_task_message: messages.insert(0, ...) instead of append.
add_task_message_Insert0(T, task_id, text) ==
    IF task_id \notin DOMAIN T THEN T
    ELSE [T EXCEPT ![task_id].messages = <<[text |-> text]>> \o @]

\* add_task_message(task_id, text) on the store T
add_task_message(T, task_id, text) ==
    IF task_id \notin DOMAIN T THEN T
    ELSE [T EXCEPT ![task_id].messages = Append(@, [text |-> text])]

\* Mutant of NewTask: the initial progress is written without its "%" sign.
NewTask_NoPercent == [status |-> "running", progress |-> "0", messages |-> <<>>]

\* the record download_route inserts
NewTask == [status |-> "running", progress |-> "0%", messages |-> <<>>]

\* Mutant of uuid4: every call returns the same identifier.
uuid4_Constant(T) == <<"uuid", 1>>

\* uuid.uuid4(): an identifier that is no key of the store T.  Identifiers
\* are opaque and only compared for equality, so which unused one is
\* returned is immaterial: the first unused one is taken.
uuid4(T) == CHOOSE id \in Uuids \ DOMAIN T :
                \A other \in Uuids \ DOMAIN T : id[2] <= other[2]

\* tempfile.NamedTemporaryFile(delete=False): a name no existing file has
\* (a name is free again once its file is unlinked).
NamedTemporaryFile(fs) == CHOOSE f \in TmpNames \ fs :
                              \A other \in TmpNames \ fs : f[2] <= other[2]

\* Mutant of UrlMissing: `if url is None`, which lets an empty url through.
UrlMissing_OnlyNone(url) == url = None

\* `if not url` of download_route
UrlMissing(url) == ~Truthy(url)

ErrorResponse(code, text) == [code |-> code, body |-> [ok |-> FALSE, error |-> text]]

\* ------------------------------------------------------------- initial state
NoResult == [ok |-> FALSE]
NoPoll == [tid |-> None]
NoCall == [fn |-> "none"]
Unlocked == "unlocked"

Init ==
    /\ TASKS = <<>>
    /\ files = {}
    /\ req = [r \in Reqs |-> [pc |-> "idle", url |-> None, cookiefile |-> None,
                              task_id |-> None, resp |-> [code |-> 0]]]
    /\ wk = [r \in Reqs |-> [pc |-> "none", res |-> NoResult]]
    /\ poll = NoPoll
    /\ TASK_LOCK = Unlocked
    /\ call = NoCall

\* ------------------------------------------------------------- POST /download
\* Lines 256-267: read the form, reject a missing url, save the uploaded
\* cookies (if any) to a fresh temporary file.
DownloadBegin(r) ==
    /\ req[r].pc = "idle"
    /\ \E url \in Urls, cookies \in BOOLEAN :
        IF UrlMissing(url) THEN
            /\ req' = [req EXCEPT ![r] = [@ EXCEPT !.pc = "returned", !.url = url,
                         !.resp = ErrorResponse(400, <<"url missing">>)]]
            /\ UNCHANGED files
        ELSE IF cookies THEN
            LET f == NamedTemporaryFile(files) IN
                /\ files' = files \cup {f}
                /\ req' = [req EXCEPT ![r] = [@ EXCEPT !.pc = "insert", !.url = url,
                             !.cookiefile = f]]
        ELSE
            /\ req' = [req EXCEPT ![r] = [@ EXCEPT !.pc = "insert", !.url = url]]
            /\ UNCHANGED files
    /\ UNCHANGED <<TASKS, wk>>
    /\ poll' = NoPoll
    /\ UNCHANGED <<TASK_LOCK, call>>

\* time.time() of line 273, read from a logical clock: the number of records
\* created so far, so that no two records share a creation time.
CreationTime(T) == Cardinality(DOMAIN T)

\* Lines 269-270: a fresh identifier; `with TASK_LOCK:` acquires the lock,
\* waiting while another thread holds it.
DownloadLock(r) ==
    /\ req[r].pc = "insert"
    /\ TASK_LOCK = Unlocked
    /\ TASK_LOCK' = r
    /\ req' = [req EXCEPT ![r] = [@ EXCEPT !.pc = "locked", !.task_id = uuid4(TASKS)]]
    /\ UNCHANGED <<TASKS, files, wk, call>>
    /\ poll' = NoPoll

\* Lines 271-274: the record is inserted and the with block releases the lock.
DownloadInsert(r) ==
    /\ req[r].pc = "locked"
    /\ LET id == req[r].task_id IN
        TASKS' = [k \in DOMAIN TASKS \cup {id} |->
                     IF k = id THEN DictUpdate(NewTask, [created |-> CreationTime(TASKS)])
                     ELSE TASKS[k]]
    /\ TASK_LOCK' = Unlocked
    /\ req' = [req EXCEPT ![r].pc = "message"]
    /\ UNCHANGED <<files, wk, call>>
    /\ poll' = NoPoll

\* Line 275
DownloadMessage(r) ==
    /\ req[r].pc = "message"
    /\ TASKS' = add_task_message(TASKS, req[r].task_id, <<"Task started">>)
    /\ req' = [req EXCEPT ![r].pc = "spawn"]
    /\ UNCHANGED <<files, wk>>
    /\ poll' = NoPoll
    /\ UNCHANGED <<TASK_LOCK, call>>

\* Line 321: threading.Thread(target=worker, daemon=True).start()
DownloadSpawn(r) ==
    /\ req[r].pc = "spawn"
    /\ wk' = [wk EXCEPT ![r].pc = "start"]
    /\ req' = [req EXCEPT ![r].pc = "respond"]
    /\ UNCHANGED <<TASKS, files>>
    /\ poll' = NoPoll
    /\ UNCHANGED <<TASK_LOCK, call>>

\* Line 322
DownloadReturn(r) ==
    /\ req[r].pc = "respond"
    /\ req' = [req EXCEPT ![r] = [@ EXCEPT !.pc = "returned",
                 !.resp = [code |-> 200, body |-> [ok |-> TRUE, task_id |-> req[r].task_id]]]]
    /\ UNCHANGED <<TASKS, files, wk>>
    /\ poll' = NoPoll
    /\ UNCHANGED <<TASK_LOCK, call>>

\* ------------------------------------------------------------- worker thread
\* Lines 292-302: the options are built; the library call begins.
WorkerPrepare(r) ==
    /\ wk[r].pc = "start"
    /\ wk' = [wk EXCEPT ![r].pc = "calling"]
    /\ UNCHANGED <<TASKS, files, req>>
    /\ poll' = NoPoll
    /\ UNCHANGED <<TASK_LOCK, call>>

\* Mutant of ExceptFields: the except clause records the text but not the
\* status.
ExceptFields_NoStatus(e) == [error |-> e]

\* Mutant of ExceptFields: the except clause also writes a filename key.
ExceptFields_WithFilename(e) == [status |-> "error", error |-> e, filename |-> None]

\* Line 313: the fields the except clause writes for an exception whose
\* str() is e
ExceptFields(e) == [status |-> "error", error |-> e]

\* Lines 312-313: an exception raised in the try block outside
\* ydl_extract_info (building the options) is caught by the worker.
WorkerExcept(r) ==
    /\ wk[r].pc = "start"
    /\ \E e \in ErrTexts :
        TASKS' = [TASKS EXCEPT ![req[r].task_id] = DictUpdate(@, ExceptFields(e))]
    /\ wk' = [wk EXCEPT ![r].pc = "cleanup"]
    /\ UNCHANGED <<files, req>>
    /\ poll' = NoPoll
    /\ UNCHANGED <<TASK_LOCK, call>>

\* Inside ydl.extract_info (line 172): the library calls the progress hook.
CollabEvent(r) ==
    /\ wk[r].pc = "calling"
    /\ \E d \in Events :
        TASKS' = [TASKS EXCEPT ![req[r].task_id] = progress_hook(@, d)]
    /\ UNCHANGED <<files, req, wk>>
    /\ poll' = NoPoll
    /\ UNCHANGED <<TASK_LOCK, call>>

\* Lines 169-175: ydl_extract_info returns its result dict, ok or not.
CollabReturn(r) ==
    /\ wk[r].pc = "calling"
    /\ \E res \in Results : wk' = [wk EXCEPT ![r] = [pc |-> "returned", res |-> res]]
    /\ UNCHANGED <<TASKS, files, req>>
    /\ poll' = NoPoll
    /\ UNCHANGED <<TASK_LOCK, call>>

\* Line 306
ResultFilename(res) ==
    IF Truthy(res.filename) THEN PathName(res.filename) ELSE None

\* Mutant of FinalFields: both fields are written on either path, the
\* unused one as None.
FinalFields_BothKeys(res) ==
    IF res.ok
    THEN [status |-> "done", filename |-> ResultFilename(res), error |-> None]
    ELSE [status |-> "error", error |-> res.error, filename |-> None]

\* Lines 305-307 and 309-310: the fields written for the result res
FinalFields(res) ==
    IF res.ok
    THEN [status |-> "done", filename |-> ResultFilename(res)]
    ELSE [status |-> "error", error |-> res.error]

\* Lines 305-307 and 309-310: the record is finalized.
WorkerFinalize(r) ==
    /\ wk[r].pc = "returned"
    /\ TASKS' = [TASKS EXCEPT ![req[r].task_id] = DictUpdate(@, FinalFields(wk[r].res))]
    /\ wk' = [wk EXCEPT ![r].pc = "message"]
    /\ UNCHANGED <<files, req>>
    /\ poll' = NoPoll
    /\ UNCHANGED <<TASK_LOCK, call>>

\* Lines 308 and 311
FinalMessage(res) ==
    IF res.ok
    THEN <<"Done: ">> \o (IF Truthy(ResultFilename(res)) THEN ResultFilename(res)
                                                         ELSE <<"(unknown)">>)
    ELSE <<"Error: ">> \o res.error

WorkerMessage(r) ==
    /\ wk[r].pc = "message"
    /\ TASKS' = add_task_message(TASKS, req[r].task_id, FinalMessage(wk[r].res))
    /\ wk' = [wk EXCEPT ![r].pc = "cleanup"]
    /\ UNCHANGED <<files, req>>
    /\ poll' = NoPoll
    /\ UNCHANGED <<TASK_LOCK, call>>

\* Mutant of Unlink: the file is left on disk.
Unlink_Noop(fs, path) == fs

\* os.unlink(path) inside try/except: Exception: pass
Unlink(fs, path) == fs \ {path}

\* Lines 314-319: the finally clause; the thread ends.
WorkerCleanup(r) ==
    /\ wk[r].pc = "cleanup"
    /\ files' = IF Truthy(req[r].cookiefile) THEN Unlink(files, req[r].cookiefile) ELSE files
    /\ wk' = [wk EXCEPT ![r].pc = "finished"]
    /\ UNCHANGED <<TASKS, req>>
    /\ poll' = NoPoll
    /\ UNCHANGED <<TASK_LOCK, call>>

\* ------------------------------------------------------------- GET /task/<tid>
\* Mutant of TaskStatusResponse: TASKS[tid] instead of TASKS.get(tid); the
\* KeyError of an unknown tid becomes the 500 response of internal_err.
TaskStatusResponse_KeyError(T, tid) ==
    IF tid \notin DOMAIN T
    THEN ErrorResponse(500, <<"internal_server_error">>)
    ELSE [code |-> 200, body |-> [ok |-> TRUE, task |-> T[tid]]]

\* Lines 324-329
TaskStatusResponse(T, tid) ==
    IF tid \notin DOMAIN T
    THEN ErrorResponse(404, <<"no such task">>)
    ELSE [code |-> 200, body |-> [ok |-> TRUE, task |-> T[tid]]]

\* The client has received tid in the response of a download request.
Known(tid) == \E r \in Reqs : req[r].pc = "returned" /\ req[r].task_id = tid

task_status ==
    /\ \E tid \in Uuids :
        poll' = [tid |-> tid, known |-> Known(tid),
                 code |-> TaskStatusResponse(TASKS, tid).code,
                 body |-> TaskStatusResponse(TASKS, tid).body]
    /\ UNCHANGED <<TASKS, files, req, wk, TASK_LOCK, call>>

\* ------------------------------------------------------------- specification
Next ==
    \/ \E r \in Reqs : DownloadBegin(r)
    \/ \E r \in Reqs : DownloadLock(r)
    \/ \E r \in Reqs : DownloadInsert(r)
    \/ \E r \in Reqs : DownloadMessage(r)
    \/ \E r \in Reqs : DownloadSpawn(r)
    \/ \E r \in Reqs : DownloadReturn(r)
    \/ \E r \in Reqs : WorkerPrepare(r)
    \/ \E r \in Reqs : WorkerExcept(r)
    \/ \E r \in Reqs : CollabEvent(r)
    \/ \E r \in Reqs : CollabReturn(r)
    \/ \E r \in Reqs : WorkerFinalize(r)
    \/ \E r \in Reqs : WorkerMessage(r)
    \/ \E r \in Reqs : WorkerCleanup(r)
    \/ task_status

Spec == Init /\ [][Next]_vars

\* Fair scheduling: a request whose handler or worker thread can take a step
\* eventually sees one of them take it, and a library call that has begun
\* eventually returns.  The library is not obliged to emit progress events.
RequestStep(r) ==
    \/ DownloadBegin(r) \/ DownloadLock(r) \/ DownloadInsert(r) \/ DownloadMessage(r)
    \/ DownloadSpawn(r) \/ DownloadReturn(r)

WorkerStep(r) ==
    \/ WorkerPrepare(r) \/ WorkerExcept(r) \/ CollabReturn(r)
    \/ WorkerFinalize(r) \/ WorkerMessage(r) \/ WorkerCleanup(r)

\* The server's steps alone: a poll reads the store and changes nothing a
\* request or a worker reads, so the jobs' progress is checked without it.
ServerNext == \E r \in Reqs : RequestStep(r) \/ WorkerStep(r) \/ CollabEvent(r)

FairSpec ==
    /\ Init
    /\ [][ServerNext]_vars
    /\ \A r \in Reqs : WF_vars(RequestStep(r) \/ WorkerStep(r))

\* ------------------------------------------------------------- properties
TaskOf(r) == TASKS[req[r].task_id]
HasTask(r) == req[r].task_id \in DOMAIN TASKS
Terminal(t) == t.status \in {"done", "error"}

\* int(progress[:-1]): the percentage a progress string shows
PctOf(progress) == CHOOSE p \in 0..(100 * MaxBytes) : FmtPct(p) = progress

\* C1 (as stated): a poll of a task identifier the client has received from
\* POST /download returns status=running and progress="0%".
C1_KnownPollRunningZero ==
    (poll.tid # None /\ poll.known) =>
        /\ poll.code = 200
        /\ poll.body.task.status = "running"
        /\ poll.body.task.progress = "0%"

\* The worker of the task tid has not yet begun the library call, nor failed.
WorkerNotBegun(tid) ==
    \A r \in Reqs : req[r].task_id = tid => wk[r].pc \in {"none", "start"}

\* C1 (amended): a poll of an existing task whose worker thread has not yet
\* begun the collaborator call (nor failed before it) returns status=running
\* and progress="0%".
C1_PollBeforeWorkRunningZero ==
    (poll.tid # None /\ poll.tid \in DOMAIN TASKS /\ WorkerNotBegun(poll.tid)) =>
        /\ poll.code = 200
        /\ poll.body.ok
        /\ poll.body.task.status = "running"
        /\ poll.body.task.progress = "0%"

\* C1 witness: the client polls an identifier it was given while the worker
\* thread, already started, has not run yet.
C1_Witness ==
    /\ poll.tid # None /\ poll.known
    /\ \E r \in Reqs : req[r].task_id = poll.tid /\ wk[r].pc = "start"
    /\ poll.body.task.status = "running"

SpecEdges == {<<"running", "processing">>, <<"processing", "done">>,
              <<"running", "error">>, <<"processing", "error">>}

\* C2 (as stated): every change of a task's status follows running->processing,
\* processing->done, running->error or processing->error.
C2_OnlySpecEdges ==
    [][\A t \in DOMAIN TASKS :
          TASKS'[t].status # TASKS[t].status =>
              <<TASKS[t].status, TASKS'[t].status>> \in SpecEdges]_vars

\* C2 (amended): every change of a task's status follows one of the four
\* edges above or running->done (the collaborator returned success without a
\* 'finished' event); a status of done or error never changes.
C2_StatusEdges ==
    [][\A t \in DOMAIN TASKS :
          /\ TASKS'[t].status # TASKS[t].status =>
                <<TASKS[t].status, TASKS'[t].status>> \in
                    SpecEdges \cup {<<"running", "done">>}
          /\ Terminal(TASKS[t]) => TASKS'[t].status = TASKS[t].status]_vars

\* C2 witness: one job has ended done and another has ended error.
C2_Witness ==
    \E a, b \in DOMAIN TASKS : TASKS[a].status = "done" /\ TASKS[b].status = "error"

\* C3: a task whose status is processing, done or error has progress "100%".
C3_ProgressFullOutsideRunning ==
    \A t \in DOMAIN TASKS :
        TASKS[t].status \in {"processing", "done", "error"} => TASKS[t].progress = "100%"

\* C4: while a task's status is running, its percentage never decreases from
\* one state to the next.
C4_ProgressMonotoneWhileRunning ==
    [][\A t \in DOMAIN TASKS :
          (TASKS[t].status = "running" /\ TASKS'[t].status = "running") =>
              PctOf(TASKS'[t].progress) >= PctOf(TASKS[t].progress)]_vars

\* C5 (as stated): a done task has a non-empty filename and no error, an error
\* task has a non-empty error and no filename.
C5_ExactlyOneNonEmpty ==
    \A t \in DOMAIN TASKS :
        /\ TASKS[t].status = "done" =>
              /\ "filename" \in DOMAIN TASKS[t] /\ Truthy(TASKS[t].filename)
              /\ "error" \notin DOMAIN TASKS[t]
        /\ TASKS[t].status = "error" =>
              /\ "error" \in DOMAIN TASKS[t] /\ Truthy(TASKS[t].error)
              /\ "filename" \notin DOMAIN TASKS[t]

\* C5 (amended): a done task has a filename field and no error field, an error
\* task has an error field and no filename field; the field that is set may
\* be empty (filename None or "", error "").
C5_ExactlyOneSet ==
    \A t \in DOMAIN TASKS :
        /\ TASKS[t].status = "done" =>
              "filename" \in DOMAIN TASKS[t] /\ "error" \notin DOMAIN TASKS[t]
        /\ TASKS[t].status = "error" =>
              "error" \in DOMAIN TASKS[t] /\ "filename" \notin DOMAIN TASKS[t]
        /\ TASKS[t].status \in {"running", "processing"} =>
              "error" \notin DOMAIN TASKS[t] /\ "filename" \notin DOMAIN TASKS[t]

\* C5 witness: a done task whose filename is None beside an error task whose
\* error text is empty.
C5_Witness ==
    \E a, b \in DOMAIN TASKS :
        /\ TASKS[a].status = "done" /\ TASKS[a].filename = None
        /\ TASKS[b].status = "error" /\ TASKS[b].error = <<>>

\* The work of request r's job has failed and the worker has handled it.
Failed(r) == wk[r].pc \in {"message", "cleanup", "finished"} /\ ~wk[r].res.ok

\* C6 (as stated): once a job's work has failed, its task has status=error and
\* a non-empty error string, in that state and every later one.
C6_FailedIsErrorNonEmpty ==
    \A r \in Reqs :
        Failed(r) => /\ TaskOf(r).status = "error"
                     /\ "error" \in DOMAIN TaskOf(r) /\ Truthy(TaskOf(r).error)

\* C6 (amended): once a job's work has failed, its task has status=error and
\* an error field holding the text of the failure (empty when the exception
\* has no message), in that state and every later one: the status is never
\* done afterwards, and the worker runs on to its end.
C6_FailedIsError ==
    \A r \in Reqs :
        Failed(r) => /\ TaskOf(r).status = "error"
                     /\ "error" \in DOMAIN TaskOf(r)
                     /\ TaskOf(r).error \in ErrTexts
                     /\ wk[r].pc # "finished" => ENABLED WorkerStep(r)

\* C6 witness: a worker that caught an exception raised outside the library
\* call has ended, beside one whose library call failed.
C6_Witness ==
    \E a, b \in Reqs :
        /\ wk[a].pc = "finished" /\ wk[a].res = NoResult /\ TaskOf(a).status = "error"
        /\ wk[b].pc = "finished" /\ wk[b].res # NoResult /\ ~wk[b].res.ok

\* f is the last component of the path p: it holds no "/", it ends where p's
\* trailing slashes begin, and it begins at p's start or right after a "/".
IsBaseNameOf(f, p) ==
    /\ \A k \in 1..Len(f) : f[k] # "/"
    /\ \E i \in 0..Len(p) : \E j \in i..Len(p) :
          /\ SubSeq(p, i + 1, j) = f
          /\ i = 0 \/ p[i] = "/"
          /\ \A k \in (j + 1)..Len(p) : p[k] = "/"
          /\ f = <<>> => \A k \in 1..Len(p) : p[k] = "/"

\* C7: under fair scheduling, with a collaborator call that returns, every
\* task created by POST /download eventually has status done or error and
\* its worker ends (a record is never removed, so this is: from some point
\* on, every task there is has ended); and once the collaborator has returned
\* success the task has status=done as soon as the worker has finalized it,
\* with filename the base name of the path the collaborator produced.
C7_EventuallyDone ==
    /\ [][\A r \in Reqs : HasTask(r) => HasTask(r)']_vars
    /\ <>[](\A r \in Reqs :
              HasTask(r) => (Terminal(TaskOf(r)) /\ wk[r].pc = "finished"))
    /\ [](\A r \in Reqs :
            (wk[r].pc \in {"message", "cleanup", "finished"} /\ wk[r].res.ok) =>
                /\ TaskOf(r).status = "done"
                /\ Truthy(wk[r].res.filename) =>
                      IsBaseNameOf(TaskOf(r).filename, wk[r].res.filename))

\* C7 witness: a job whose collaborator produced d/a has ended with
\* status=done and filename a.
C7_Witness ==
    \E r \in Reqs :
        /\ wk[r].pc = "finished" /\ wk[r].res.ok
        /\ wk[r].res.filename = <<"d", "/", "a">>
        /\ TaskOf(r).status = "done" /\ TaskOf(r).filename = <<"a">>

\* C8: the temporary cookie file of a download request exists from its
\* creation until the worker's cleanup (so throughout the collaborator call),
\* and the step that ends the worker leaves no file of that name on disk,
\* whether the job succeeded, failed or raised.
C8_CookieFileRemoved ==
    /\ [](\A r \in Reqs :
            (Truthy(req[r].cookiefile) /\ wk[r].pc # "finished") =>
                req[r].cookiefile \in files)
    /\ [][\A r \in Reqs :
            (Truthy(req[r].cookiefile) /\ wk[r].pc # "finished" /\ wk'[r].pc = "finished") =>
                req[r].cookiefile \notin files']_vars

\* C8 witness: with cookies uploaded, one worker has ended after a success,
\* another after a caught exception, and no cookie file is left.
C8_Witness ==
    /\ files = {}
    /\ \E a, b \in Reqs :
          /\ Truthy(req[a].cookiefile) /\ wk[a].pc = "finished" /\ wk[a].res.ok
          /\ Truthy(req[b].cookiefile) /\ wk[b].pc = "finished" /\ wk[b].res = NoResult

\* C9 (as stated): a poll of an identifier that is no key of the task store
\* answers 404 with the body {"ok": false, "error": "not_found"}.
C9_UnknownIsNotFoundShape ==
    (poll.tid # None /\ poll.tid \notin DOMAIN TASKS) =>
        /\ poll.code = 404
        /\ poll.body = [ok |-> FALSE, error |-> <<"not_found">>]

\* C9 (amended): a poll of an identifier that is no key of the task store
\* answers 404 with the body {"ok": false, "error": "no such task"}, and the
\* step leaves the task store unchanged.
C9_UnknownIsNoSuchTask ==
    [][(poll'.tid # None /\ poll'.tid \notin DOMAIN TASKS) =>
          /\ poll'.code = 404
          /\ poll'.body = [ok |-> FALSE, error |-> <<"no such task">>]
          /\ TASKS' = TASKS]_vars

\* C9 witness: an unknown identifier has been polled while the store holds a
\* task.
C9_Witness ==
    /\ poll.tid # None /\ poll.tid \notin DOMAIN TASKS
    /\ DOMAIN TASKS # {}
    /\ poll.code = 404

\* C10: a POST /download request whose url is absent or empty is answered 400
\* in a step that changes neither the task store, nor the files on disk, nor
\* any worker thread; the request never has a task, a cookie file or a worker.
C10_MissingUrlNoEffect ==
    /\ [](\A r \in Reqs :
            (req[r].pc # "idle" /\ ~Truthy(req[r].url)) =>
                /\ req[r].pc = "returned" /\ req[r].resp.code = 400
                /\ req[r].task_id = None /\ req[r].cookiefile = None
                /\ wk[r].pc = "none")
    /\ [][\A r \in Reqs :
            (req[r].pc = "idle" /\ req'[r].pc # "idle" /\ ~Truthy(req'[r].url)) =>
                TASKS' = TASKS /\ files' = files /\ wk' = wk]_vars

\* C10 witness: a request with an empty url has been answered 400 while
\* another request's job is in progress.
C10_Witness ==
    \E a, b \in Reqs :
        /\ req[a].pc = "returned" /\ req[a].url = <<>> /\ req[a].resp.code = 400
        /\ wk[b].pc = "calling"

\* =========================================================================
\* The options of a download job, checked on their own: the form field
\* `requested` (line 257), the selector parsing of worker (lines 292-299) and
\* prepare_yt_dlp_opts (lines 122-167).
\* =========================================================================
MaxCodecLen == 2     \* length of what follows the head of a selector

\* str.isspace of one character
IsSpace(c) == c \in {" ", "\t"}

\* str.strip()
RECURSIVE LStrip(_)
LStrip(s) == IF s # <<>> /\ IsSpace(Head(s)) THEN LStrip(Tail(s)) ELSE s

RECURSIVE RStrip(_)
RStrip(s) ==
    IF s # <<>> /\ IsSpace(s[Len(s)]) THEN RStrip(SubSeq(s, 1, Len(s) - 1)) ELSE s

Strip(s) == RStrip(LStrip(s))

\* str.startswith
StartsWith(s, prefix) ==
    Len(s) >= Len(prefix) /\ SubSeq(s, 1, Len(prefix)) = prefix

\* s.split(":", 1)[1] of a string that holds a colon: what follows the first one
RECURSIVE AfterFirstColon(_)
AfterFirstColon(s) == IF Head(s) = ":" THEN Tail(s) ELSE AfterFirstColon(Tail(s))

AudioPrefix == <<"a", "u", "d", "i", "o", ":">>

\* audio_convert is None or a dict, and is only tested for truth
\* (`if audio_convert:`): None is represented by the dict with no key.
NoDict == [k \in {} |-> None]

\* Mutant of SelectFormat: the codec is cut at a second colon
\* (split(":")[1] instead of split(":", 1)[1]).
RECURSIVE UpToColon(_)
UpToColon(s) ==
    IF s = <<>> \/ Head(s) = ":" THEN <<>> ELSE <<Head(s)>> \o UpToColon(Tail(s))

SelectFormat_SplitAll(requested) ==
    IF requested # <<>> THEN
        IF StartsWith(requested, AudioPrefix)
        THEN [fmt |-> <<"bestaudio/best">>,
              audio_convert |-> [codec |-> UpToColon(AfterFirstColon(requested)),
                                 quality |-> 192]]
        ELSE [fmt |-> requested, audio_convert |-> NoDict]
    ELSE [fmt |-> None, audio_convert |-> NoDict]

\* Lines 292-299: fmt and audio_convert for the selector `requested`
SelectFormat(requested) ==
    IF requested # <<>> THEN
        IF StartsWith(requested, AudioPrefix)
        THEN [fmt |-> <<"bestaudio/best">>,
              audio_convert |-> [codec |-> AfterFirstColon(requested), quality |-> 192]]
        ELSE [fmt |-> requested, audio_convert |-> NoDict]
    ELSE [fmt |-> None, audio_convert |-> NoDict]

\* Lines 122-167.  env is what the function reads from its surroundings:
\* the proxy variables of the environment and whether cookies.txt exists.
prepare_yt_dlp_opts(cookiefile, hook, format_override, audio_convert, env) ==
    LET base == [format |-> IF Truthy(format_override) THEN format_override
                            ELSE <<"bestvideo+bestaudio/best">>,
                 quiet |-> TRUE, no_warnings |-> TRUE,
                 outtmpl |-> <<"downloads/%(title)s - %(id)s.%(ext)s">>,
                 retries |-> 5, socket_timeout |-> 30,
                 nocheckcertificate |-> TRUE, geo_bypass |-> TRUE]
        withProxy == IF Truthy(env.proxy)
                     THEN DictUpdate(base, [proxy |-> env.proxy]) ELSE base
        withCookie == IF Truthy(cookiefile)
                      THEN DictUpdate(withProxy, [cookiefile |-> cookiefile])
                      ELSE IF env.server_cookie
                      THEN DictUpdate(withProxy, [cookiefile |-> <<"cookies.txt">>])
                      ELSE withProxy
        withPost == IF DOMAIN audio_convert # {}
                    THEN DictUpdate(withCookie, [postprocessors |-> <<
                             [key |-> <<"FFmpegExtractAudio">>,
                              preferredcodec |-> audio_convert.codec,
                              preferredquality |-> <<ToString(audio_convert.quality)>>] >>])
                    ELSE withCookie
    IN  IF hook THEN DictUpdate(withPost, [progress_hooks |-> <<"progress_hook">>])
        ELSE withPost

\* The values of the form field `requested`: absent, or a head followed by
\* up to MaxCodecLen more characters, with or without whitespace around it.
RECURSIVE StringsUpTo(_, _)
StringsUpTo(chars, n) ==
    IF n = 0 THEN {<<>>}
    ELSE StringsUpTo(chars, n - 1)
         \cup {Append(t, c) : t \in StringsUpTo(chars, n - 1), c \in chars}

SelectorHeads == {<<>>, AudioPrefix, <<"a", "u", "d", "i", "o">>, <<"2", "2">>}
Pads == {<<>>, <<" ">>}
Selectors ==
    {None} \cup {pre \o h \o t \o post :
                    pre \in Pads, h \in SelectorHeads,
                    t \in StringsUpTo({"m", ":", " "}, MaxCodecLen), post \in Pads}

Envs == [proxy : {None, <<"p">>}, server_cookie : BOOLEAN]

OptsInit ==
    /\ TASKS = <<>> /\ files = {} /\ poll = NoPoll /\ TASK_LOCK = Unlocked
    /\ req = [r \in Reqs |-> [pc |-> "idle", url |-> None, cookiefile |-> None,
                              task_id |-> None, resp |-> [code |-> 0]]]
    /\ wk = [r \in Reqs |-> [pc |-> "none", res |-> NoResult]]
    /\ \E field \in Selectors, env \in Envs, cookiefile \in {None} \cup TmpNames :
          call = [fn |-> "download_opts", pc |-> "form", field |-> field,
                  env |-> env, cookiefile |-> cookiefile]

\* Line 257: request.form.get("requested", "").strip()
OptsForm ==
    /\ call.fn = "download_opts" /\ call.pc = "form"
    /\ call' = DictUpdate(call, [pc |-> "select",
                  requested |-> Strip(IF call.field = None THEN <<>> ELSE call.field)])
    /\ UNCHANGED <<TASKS, files, req, wk, poll, TASK_LOCK>>

\* Lines 292-299
OptsSelect ==
    /\ call.fn = "download_opts" /\ call.pc = "select"
    /\ call' = DictUpdate(call, [pc |-> "prepare", sel |-> SelectFormat(call.requested)])
    /\ UNCHANGED <<TASKS, files, req, wk, poll, TASK_LOCK>>

\* Lines 301-302
OptsPrepare ==
    /\ call.fn = "download_opts" /\ call.pc = "prepare"
    /\ call' = DictUpdate(call, [pc |-> "done",
                  opts |-> prepare_yt_dlp_opts(call.cookiefile, TRUE, call.sel.fmt,
                                               call.sel.audio_convert, call.env)])
    /\ UNCHANGED <<TASKS, files, req, wk, poll, TASK_LOCK>>

OptsNext == OptsForm \/ OptsSelect \/ OptsPrepare

OptsSpec == OptsInit /\ [][OptsNext]_vars

\* What the claim C11 says the options are for the selector sel.
SelectorOptionsOk(sel, opts) ==
    IF StartsWith(sel, AudioPrefix) THEN
        /\ opts.format = <<"bestaudio/best">>
        /\ "postprocessors" \in DOMAIN opts
        /\ Len(opts.postprocessors) = 1
        /\ opts.postprocessors[1].preferredcodec = SubSeq(sel, Len(AudioPrefix) + 1, Len(sel))
        /\ opts.postprocessors[1].preferredquality = <<"192">>
    ELSE IF sel # <<>> THEN
        opts.format = sel /\ "postprocessors" \notin DOMAIN opts
    ELSE
        opts.format = <<"bestvideo+bestaudio/best">> /\ "postprocessors" \notin DOMAIN opts

\* s is raw without its leading and trailing whitespace.
IsStripOf(s, raw) ==
    /\ s # <<>> => ~IsSpace(s[1]) /\ ~IsSpace(s[Len(s)])
    /\ \E i \in 0..Len(raw) : \E j \in i..Len(raw) :
          /\ SubSeq(raw, i + 1, j) = s
          /\ \A k \in (1..i) \cup ((j + 1)..Len(raw)) : IsSpace(raw[k])

\* C11 (as stated): the options follow from the selector string of the request
\* as sent: audio:<codec>, any other non-empty selector verbatim, or empty.
C11_RawSelectorOptions ==
    (call.fn = "download_opts" /\ call.pc = "done") =>
        SelectorOptionsOk(IF call.field = None THEN <<>> ELSE call.field, call.opts)

\* C11 (amended): the options follow in that way from the selector string with
\* its leading and trailing whitespace removed (an absent field being empty).
C11_StrippedSelectorOptions ==
    (call.fn = "download_opts" /\ call.pc = "done") =>
        LET raw == IF call.field = None THEN <<>> ELSE call.field IN
        \E i \in 0..Len(raw) : \E j \in i..Len(raw) :
            /\ IsStripOf(SubSeq(raw, i + 1, j), raw)
            /\ SelectorOptionsOk(SubSeq(raw, i + 1, j), call.opts)

\* C11 witness: the selector audio:m: sent with whitespace around it has
\* given the codec m: (the remainder, second colon included).
C11_Witness ==
    /\ call.fn = "download_opts" /\ call.pc = "done"
    /\ call.field = <<" ">> \o AudioPrefix \o <<"m", ":">> \o <<" ">>
    /\ call.opts.postprocessors[1].preferredcodec = <<"m", ":">>

\* =========================================================================
\* POST /info (info_route, lines 211-252), beside the handlers of POST
\* /download.
\* =========================================================================
MaxErrLen == 4       \* length of the digit part of a collaborator error text

\* `needle in text`
Contains(text, needle) ==
    \E i \in 0..(Len(text) - Len(needle)) : SubSeq(text, i + 1, i + Len(needle)) = needle

Forbidden == <<"F", "o", "r", "b", "i", "d", "d", "e", "n">>

\* str(e) of the errors the library can raise in info_route
InfoErrTexts == StringsUpTo({"4", "0", "3"}, MaxErrLen) \cup {Forbidden}

\* What ydl_extract_info(url, opts, download=False) can return.
InfoResults ==
       {[ok |-> TRUE, info |-> [id |-> <<"v">>, title |-> <<"t">>], filename |-> None]}
  \cup {[ok |-> FALSE, error |-> e] : e \in InfoErrTexts}

\* Mutant of InfoHint: only the word Forbidden is looked for.
InfoHint_ForbiddenOnly(err) ==
    IF Contains(err, Forbidden) THEN <<"403 from upstream: ensure valid cookies">> ELSE None

\* Lines 249-251
InfoHint(err) ==
    IF Contains(err, <<"4", "0", "3">>) \/ Contains(err, Forbidden)
    THEN <<"403 from upstream: ensure valid cookies">>
    ELSE None

\* info.get(k)
InfoGet(info, k) == IF k \in DOMAIN info THEN info[k] ELSE None

\* Lines 235-252
InfoResponse(result) ==
    IF result.ok THEN
        [code |-> 200,
         body |-> [ok |-> TRUE, id |-> InfoGet(result.info, "id"),
                   title |-> InfoGet(result.info, "title"),
                   thumbnail |-> InfoGet(result.info, "thumbnail"),
                   uploader |-> InfoGet(result.info, "uploader"),
                   duration |-> InfoGet(result.info, "duration"),
                   formats |-> IF "formats" \in DOMAIN result.info
                               THEN result.info.formats ELSE <<>>]]
    ELSE
        [code |-> 422,
         body |-> [ok |-> FALSE, error |-> result.error, hint |-> InfoHint(result.error)]]

InfoInit ==
    /\ TASKS = <<>> /\ files = {} /\ poll = NoPoll /\ TASK_LOCK = Unlocked
    /\ req = [r \in Reqs |-> [pc |-> "idle", url |-> None, cookiefile |-> None,
                              task_id |-> None, resp |-> [code |-> 0]]]
    /\ wk = [r \in Reqs |-> [pc |-> "none", res |-> NoResult]]
    /\ call = [fn |-> "info_route", pc |-> "idle"]

\* Lines 213-223: read the form, reject a missing url, save the uploaded
\* cookies (if any) to a fresh temporary file.
InfoBegin ==
    /\ call.fn = "info_route" /\ call.pc = "idle"
    /\ \E url \in Urls, cookies \in BOOLEAN :
        IF UrlMissing(url) THEN
            /\ call' = DictUpdate(call, [pc |-> "returned", url |-> url,
                          resp |-> ErrorResponse(400, <<"url missing">>)])
            /\ UNCHANGED files
        ELSE IF cookies THEN
            LET f == NamedTemporaryFile(files) IN
                /\ files' = files \cup {f}
                /\ call' = DictUpdate(call, [pc |-> "extract", url |-> url, cookiefile |-> f])
        ELSE
            /\ call' = DictUpdate(call, [pc |-> "extract", url |-> url, cookiefile |-> None])
            /\ UNCHANGED files
    /\ UNCHANGED <<TASKS, req, wk, poll, TASK_LOCK>>

\* Lines 225-227: the options are built and the library is called; it
\* returns a result dict, ok or not.
InfoExtract ==
    /\ call.fn = "info_route" /\ call.pc = "extract"
    /\ \E result \in InfoResults :
          call' = DictUpdate(call, [pc |-> "cleanup", result |-> result])
    /\ UNCHANGED <<TASKS, files, req, wk, poll, TASK_LOCK>>

\* Lines 228-233: the finally clause
InfoCleanup ==
    /\ call.fn = "info_route" /\ call.pc = "cleanup"
    /\ files' = IF Truthy(call.cookiefile) THEN Unlink(files, call.cookiefile) ELSE files
    /\ call' = DictUpdate(call, [pc |-> "respond"])
    /\ UNCHANGED <<TASKS, req, wk, poll, TASK_LOCK>>

\* Lines 235-252
InfoRespond ==
    /\ call.fn = "info_route" /\ call.pc = "respond"
    /\ call' = DictUpdate(call, [pc |-> "returned", resp |-> InfoResponse(call.result)])
    /\ UNCHANGED <<TASKS, files, req, wk, poll, TASK_LOCK>>

InfoStep == InfoBegin \/ InfoExtract \/ InfoCleanup \/ InfoRespond

\* A step of a download handler while the info request is served
InfoRequestStep(r) == RequestStep(r) /\ call.fn = "info_route"

InfoNext == InfoStep \/ \E r \in Reqs : InfoRequestStep(r)

InfoSpec == InfoInit /\ [][InfoNext]_vars

\* The text holds the three characters 4, 0, 3 in a row.
Has403(text) ==
    \E i \in 1..Len(text) :
        i + 2 <= Len(text) /\ text[i] = "4" /\ text[i + 1] = "0" /\ text[i + 2] = "3"

\* C12: when the collaborator has failed during POST /info with an error text
\* containing 403, the response is 422 with ok=false and a hint that is not
\* None; and no step of info_route changes the task store.
C12_Info403Hint ==
    /\ [](  (/\ call.fn = "info_route" /\ call.pc = "returned"
             /\ "result" \in DOMAIN call /\ ~call.result.ok
             /\ Has403(call.result.error))
          => /\ call.resp.code = 422
             /\ ~call.resp.body.ok
             /\ call.resp.body.hint # None)
    /\ [][call' # call => TASKS' = TASKS]_vars

\* C12 witness: the error 0403 has been answered while the task store holds a
\* record.
C12_Witness ==
    /\ call.fn = "info_route" /\ call.pc = "returned"
    /\ "result" \in DOMAIN call /\ ~call.result.ok
    /\ call.result.error = <<"0", "4", "0", "3">>
    /\ call.resp.code = 422
    /\ DOMAIN TASKS # {}

\* =========================================================================
\* The lock of the store
\* =========================================================================

\* C13: every access to the task store is made while the lock of the store is
\* held: a step that writes a record (TASKS changes) or that looks one up for
\* a status poll (poll is filled) starts in a state where TASK_LOCK is taken.
\* The code takes the lock for the insert of lines 270-274 only.
C13_StoreAccessHoldsLock ==
    [][(TASKS' # TASKS \/ poll' # NoPoll) => TASK_LOCK # Unlocked]_vars

\* =========================================================================
\* The life of a record
\* =========================================================================

\* The identifier tid has been returned by POST /download.
Returned(tid) ==
    \E r \in Reqs : /\ req[r].pc = "returned" /\ req[r].resp.code = 200
                    /\ req[r].resp.body.task_id = tid

\* C14: when the handler is about to start the worker thread the record is in
\* the store with status running, progress "0%" and the message 'Task
\* started'; once the worker is started or the identifier returned the record
\* is in the store; no step removes a record; and a poll of an identifier
\* that POST /download has returned is never answered 404.
C14_RecordBeforeStart ==
    /\ [](\A r \in Reqs :
            /\ req[r].pc = "spawn" =>
                  /\ HasTask(r)
                  /\ TaskOf(r).status = "running"
                  /\ TaskOf(r).progress = "0%"
                  /\ Len(TaskOf(r).messages) = 1
                  /\ TaskOf(r).messages[1].text = <<"Task started">>
            /\ (wk[r].pc # "none" \/ Returned(req[r].task_id)) => HasTask(r))
    /\ [][DOMAIN TASKS \subseteq DOMAIN TASKS']_vars
    /\ []((poll.tid # None /\ Returned(poll.tid)) => poll.code = 200 /\ poll.body.ok)

\* C14 witness: an identifier returned by POST /download is polled after its
\* job has ended, while another record is in the store.
C14_Witness ==
    /\ poll.tid # None /\ Returned(poll.tid) /\ poll.code = 200
    /\ \E r \in Reqs : req[r].task_id = poll.tid /\ wk[r].pc = "finished"
    /\ Cardinality(DOMAIN TASKS) = 2

\* The record t holds a message that reports an error.
HasErrorMessage(t) ==
    \E i \in DOMAIN t.messages :
        t.messages[i].text # <<>> /\ t.messages[i].text[1] = "Error: "

\* C15: every transition of a task to status error appends an error message:
\* once the worker has left its try block with the status error, the messages
\* of the task hold an 'Error: ...' entry.  The except clause of line 313
\* appends none.
C15_ErrorAppendsMessage ==
    \A r \in Reqs :
        (/\ HasTask(r) /\ wk[r].pc \in {"cleanup", "finished"}
         /\ TaskOf(r).status = "error")
        => HasErrorMessage(TaskOf(r))

ResultKeys == {"filename", "error"}

\* C16: in every state a record has a filename key only if its status is done
\* and an error key only if its status is error; and each of the two keys is
\* written at most once: a key that is present keeps its value in every step,
\* and the worker steps that write one are taken while the record has neither.
C16_ResultKeysOnce ==
    /\ [](\A t \in DOMAIN TASKS :
            /\ "filename" \in DOMAIN TASKS[t] => TASKS[t].status = "done"
            /\ "error" \in DOMAIN TASKS[t] => TASKS[t].status = "error")
    /\ [][\A t \in DOMAIN TASKS : \A k \in ResultKeys :
            k \in DOMAIN TASKS[t] =>
                k \in DOMAIN TASKS'[t] /\ TASKS'[t][k] = TASKS[t][k]]_vars
    /\ [][\A r \in Reqs :
            (WorkerFinalize(r) \/ WorkerExcept(r)) =>
                ResultKeys \cap DOMAIN TaskOf(r) = {}]_vars

\* C16 witness: one job has ended done with its filename written, another in
\* error with its error written, and both workers are through.
C16_Witness ==
    \E a, b \in Reqs :
        /\ HasTask(a) /\ HasTask(b)
        /\ wk[a].pc = "finished" /\ wk[b].pc = "finished"
        /\ TaskOf(a).status = "done" /\ "filename" \in DOMAIN TaskOf(a)
        /\ TaskOf(b).status = "error" /\ "error" \in DOMAIN TaskOf(b)

\* A step of the job of request r: its worker or its progress callback.
JobStep(r) == WorkerStep(r) \/ CollabEvent(r)

\* C17: every step taken by the worker or the progress callback of one job
\* leaves the record of every other request's task as it was, and no step
\* changes the created timestamp of a record that exists.
C17_JobWritesOwnRecord ==
    /\ [][\A a \in Reqs : JobStep(a) =>
            \A b \in Reqs \ {a} : HasTask(b) => TaskOf(b)' = TaskOf(b)]_vars
    /\ [][\A t \in DOMAIN TASKS :
            t \in DOMAIN TASKS' /\ TASKS'[t].created = TASKS[t].created]_vars

\* C17 witness: two jobs are inside the library at once, each having written
\* its own record (one shows 100%, the other is processing), the records
\* created at different times.
C17_Witness ==
    \E a, b \in Reqs :
        /\ a # b /\ wk[a].pc = "calling" /\ wk[b].pc = "calling"
        /\ TaskOf(a).status = "running" /\ TaskOf(a).progress = "100%"
        /\ TaskOf(b).status = "processing"
        /\ TaskOf(a).created # TaskOf(b).created

\* The sequence old is a prefix of the sequence new.
IsPrefix(old, new) ==
    Len(old) <= Len(new) /\ SubSeq(new, 1, Len(old)) = old

\* C18: the messages of a task are append-only, every step leaving the old
\* value as a prefix of the new one, and the first entry of the sequence is
\* always 'Task started'.
C18_MessagesAppendOnly ==
    /\ [][\A t \in DOMAIN TASKS :
            IsPrefix(TASKS[t].messages, TASKS'[t].messages)]_vars
    /\ [](\A t \in DOMAIN TASKS :
            TASKS[t].messages # <<>> =>
                TASKS[t].messages[1].text = <<"Task started">>)

\* C18 witness: a task whose messages are 'Task started' followed by the
\* report of a failure.
C18_Witness ==
    \E t \in DOMAIN TASKS :
        /\ Len(TASKS[t].messages) = 2
        /\ TASKS[t].messages[1].text = <<"Task started">>
        /\ TASKS[t].messages[2].text[1] = "Error: "

\* =========================================================================
\* progress_hook (lines 277-288), checked on its own over events with larger
\* byte counts than the jobs above use.
\* =========================================================================
HookMaxBytes == 3    \* largest byte count of an event

\* What a numeric key of an event can hold: None or a count
HookNums == {NoneNum} \cup (0..HookMaxBytes)

HookNumKeys == {"downloaded_bytes", "total_bytes", "total_bytes_estimate"}

\* Events of every kind; a 'downloading' event carries any of the numeric
\* keys, each holding None or a count.
HookEvents ==
       {DictUpdate([status |-> "downloading"], nums) :
            nums \in UNION {[K -> HookNums] : K \in SUBSET HookNumKeys}}
  \cup {[status |-> "finished"], [status |-> "error"], [status |-> "postprocessing"]}

HookInit ==
    /\ TASKS = <<>> /\ files = {} /\ poll = NoPoll /\ TASK_LOCK = Unlocked
    /\ req = [r \in Reqs |-> [pc |-> "idle", url |-> None, cookiefile |-> None,
                              task_id |-> None, resp |-> [code |-> 0]]]
    /\ wk = [r \in Reqs |-> [pc |-> "none", res |-> NoResult]]
    /\ call = [fn |-> "progress_hook", pc |-> "idle",
               task |-> add_task_message([id \in {"t"} |-> NewTask], "t",
                                         <<"Task started">>)["t"]]

\* The library calls the hook of a job with an event: the call returns or
\* lets an exception out, and leaves the record of the job behind.
HookCall ==
    /\ call.fn = "progress_hook"
    /\ \E d \in HookEvents :
        call' = [fn |-> "progress_hook", pc |-> "called", d |-> d,
                 before |-> call.task,
                 task |-> progress_hook(call.task, d),
                 raised |-> HookEscapes(call.task, d)]
    /\ UNCHANGED <<TASKS, files, req, wk, poll, TASK_LOCK>>

HookNext == HookCall

HookSpec == HookInit /\ [][HookNext]_vars

\* floor(n / m) of naturals n and m > 0
Floor(n, m) == CHOOSE q \in 0..n : q * m <= n /\ n < (q + 1) * m

\* The number the event d carries under key k, 0 if it carries none
Carried(d, k) == IF k \in DOMAIN d /\ d[k] # NoneNum THEN d[k] ELSE 0

\* The total of the event d: total_bytes or, failing that (absent, None or
\* zero), total_bytes_estimate; 0 when neither is known.
TotalOf(d) ==
    IF Carried(d, "total_bytes") # 0 THEN Carried(d, "total_bytes")
    ELSE Carried(d, "total_bytes_estimate")

\* The event d carries a byte count under downloaded_bytes.
HasDone(d) == "downloaded_bytes" \in DOMAIN d /\ d.downloaded_bytes # NoneNum

\* C19: a call of the progress callback never raises to the collaborator; on
\* a 'downloading' event with a known non-zero total it sets progress to
\* floor(downloaded_bytes * 100 / total)%, and with no total or a zero one to
\* "0%", the status and the rest of the record staying as they were; on a
\* 'finished' event it sets progress to "100%" and status to processing; on
\* an event of any other kind it leaves the record unchanged.
C19_HookProgress ==
    call.pc = "called" =>
        /\ call.raised = "none"
        /\ call.d.status = "downloading" =>
              /\ (HasDone(call.d) /\ TotalOf(call.d) # 0) =>
                    call.task = [call.before EXCEPT !.progress =
                        FmtPct(Floor(call.d.downloaded_bytes * 100, TotalOf(call.d)))]
              /\ TotalOf(call.d) = 0 =>
                    call.task = [call.before EXCEPT !.progress = "0%"]
              /\ call.task.status = call.before.status
              /\ call.task.messages = call.before.messages
        /\ call.d.status = "finished" =>
              call.task = [call.before EXCEPT !.progress = "100%",
                                              !.status = "processing"]
        /\ call.d.status \notin {"downloading", "finished"} =>
              call.task = call.before

\* C19 witness: 2 of 3 bytes, the total taken from the estimate because
\* total_bytes is None, shown as 66% on a record that was processing.
C19_Witness ==
    /\ call.pc = "called"
    /\ call.d = [status |-> "downloading", downloaded_bytes |-> 2,
                 total_bytes |-> NoneNum, total_bytes_estimate |-> 3]
    /\ call.before.status = "processing"
    /\ call.task.progress = "66%"
    /\ call.task.status = "processing"
====
